---- MODULE Spec2Model ----
(***************************************************************************)
(* A model of macroeco.py: the point-density neighbour count               *)
(* (count_pts_within_radius), the confidence hull (confidence_hull), the   *)
(* rank-abundance helpers (get_rad_data, plot_rad) and the two scalar      *)
(* statistics (e_var, obs_pred_rsquare).                                   *)
(*                                                                         *)
(* Numbers are exact: integers, and rationals <<n, d>> in lowest terms     *)
(* with d >= 0, where d = 0 stands for the non-finite results of a         *)
(* division by zero (<<1,0>> inf, <<-1,0>> -inf, <<0,0>> nan), as numpy    *)
(* produces them.  Logarithms are fixed-point tables.                      *)
(***************************************************************************)
EXTENDS Integers, Sequences, FiniteSets, TLC

VARIABLES
    pc,                 \* "start", or the name of the function that last returned
    x, y,               \* the point set: two equal-length arrays
    radius,             \* neighbourhood radius
    confidence_int,     \* target mass, a rational <<n, d>>
    logscale,           \* 0 or 1
    count_data,         \* list of (a, b, num_neighbors) triples
    sorted_count_data,  \* confidence_hull: count_data sorted descending by count
    total_count,        \* confidence_hull: sum of the counts
    cum_counts,         \* confidence_hull: np.cumsum of the sorted counts
    confidence_points,  \* confidence_hull: the points handed to convex_hull
    hull_attempted,     \* confidence_hull: convhull.convex_hull was called
    hull_points,        \* confidence_hull: the hull vertices returned
    raised,             \* error raised by confidence_hull's own code
    Ns,                 \* the caller's abundance list
    rank,               \* get_rad_data: returned ranks
    relab_sorted,       \* get_rad_data: returned relative abundances
    abundance_data,     \* e_var input
    evar_arg,           \* e_var: the argument given to arctan
    evar_result,        \* e_var: the value returned
    obs, pred,          \* obs_pred_rsquare inputs
    rsquare             \* obs_pred_rsquare: the value returned

vars == <<pc, x, y, radius, confidence_int, logscale, count_data,
          sorted_count_data, total_count, cum_counts, confidence_points,
          hull_attempted, hull_points, raised, Ns, rank, relab_sorted,
          abundance_data, evar_arg, evar_result, obs, pred, rsquare>>

ptsVars == <<x, y, radius, confidence_int, logscale, count_data,
             sorted_count_data, total_count, cum_counts, confidence_points,
             hull_attempted, hull_points, raised>>
radVars == <<Ns, rank, relab_sorted>>
evarVars == <<abundance_data, evar_arg, evar_result>>
rsqVars == <<obs, pred, rsquare>>

(***************************************************************************)
(* Bounds of the model.                                                    *)
(***************************************************************************)
MaxPts == 3      \* points in (x, y)
MaxRadius == 2   \* radius is -MaxRadius..MaxRadius (1..MaxRadius in log mode)
MaxS == 3        \* species in an abundance vector given to get_rad_data
MaxAbund == 3    \* abundances are 0..MaxAbund
MaxEvarS == 4    \* species in an abundance vector given to e_var
MaxEvarAbund == 5 \* e_var abundances are 1..MaxEvarAbund
MaxObs == 3      \* length of obs and pred
MaxVal == 3      \* obs and pred values are 1..MaxVal

\* the grid the points lie on, and the confidence levels tried
Coords == {1, 2}
ConfLevels == {<<0, 1>>, <<1, 2>>, <<19, 20>>, <<1, 1>>}

(***************************************************************************)
(* Arithmetic.                                                             *)
(***************************************************************************)
Abs(n) == IF n < 0 THEN -n ELSE n
Sign(n) == IF n < 0 THEN -1 ELSE IF n > 0 THEN 1 ELSE 0

RECURSIVE GCD(_, _)
GCD(a, b) == IF b = 0 THEN a ELSE GCD(b, a % b)

\* n / d under true division (from __future__ import division, numpy rules)
Rat(n, d) ==
    IF d = 0 THEN <<Sign(n), 0>>
    ELSE LET g == GCD(Abs(n), Abs(d))
         IN <<(Sign(d) * n) \div g, Abs(d) \div g>>

IsNaN(p) == p[1] = 0 /\ p[2] = 0
IsFinite(p) == p[2] # 0

RatAdd(p, q) ==
    IF IsFinite(p) /\ IsFinite(q)
    THEN LET l == (p[2] \div GCD(p[2], q[2])) * q[2]
         IN Rat(p[1] * (l \div p[2]) + q[1] * (l \div q[2]), l)
    ELSE IF IsNaN(p) \/ IsNaN(q) THEN <<0, 0>>
    ELSE IF ~IsFinite(p) /\ ~IsFinite(q) THEN (IF p = q THEN p ELSE <<0, 0>>)
    ELSE IF IsFinite(p) THEN q ELSE p

RatNeg(p) == <<-p[1], p[2]>>
RatSub(p, q) == RatAdd(p, RatNeg(q))

RatMul(p, q) ==
    IF IsNaN(p) \/ IsNaN(q) THEN <<0, 0>>
    ELSE Rat(p[1] * q[1], p[2] * q[2])

RatDiv(p, q) ==
    IF IsNaN(p) \/ IsNaN(q) THEN <<0, 0>>
    ELSE IF ~IsFinite(q) THEN (IF IsFinite(p) THEN <<0, 1>> ELSE <<0, 0>>)
    ELSE IF ~IsFinite(p) THEN (IF q[1] < 0 THEN RatNeg(p) ELSE p)
    ELSE IF q[1] = 0 THEN <<Sign(p[1]), 0>>
    ELSE Rat(p[1] * q[2] * Sign(q[1]), p[2] * Abs(q[1]))

\* p <= q; every comparison with nan is False
RatLeq(p, q) ==
    IF IsNaN(p) \/ IsNaN(q) THEN FALSE
    ELSE IF IsFinite(p) /\ IsFinite(q) THEN p[1] * q[2] <= q[1] * p[2]
    ELSE IF ~IsFinite(p) THEN (p[1] < 0 \/ p = q)
    ELSE q[1] > 0

RatLt(p, q) == RatLeq(p, q) /\ p # q

\* a function over 1..n as an array of its values
AsTuple(f) == f \o <<>>

\* the builtin sum() over a sequence of integers
Sum(s) ==
    LET RECURSIVE Go(_, _)
        Go(i, acc) == IF i > Len(s) THEN acc ELSE Go(i + 1, acc + s[i])
    IN Go(1, 0)

Range(s) == {s[i] : i \in DOMAIN s}

\* the least common multiple of the denominators of finite rationals
CommonDenominator(s) ==
    LET RECURSIVE Go(_, _)
        Go(i, acc) == IF i > Len(s) THEN acc
                      ELSE Go(i + 1, (s[i][2] \div GCD(s[i][2], acc)) * acc)
    IN Go(1, 1)

\* the builtin sum() over a sequence of rationals, starting from 0
RatSum(s) ==
    IF \E i \in DOMAIN s : IsNaN(s[i]) THEN <<0, 0>>
    ELSE IF \E i \in DOMAIN s : ~IsFinite(s[i])
    THEN (IF \A i, j \in DOMAIN s :
                 (~IsFinite(s[i]) /\ ~IsFinite(s[j])) => s[i] = s[j]
          THEN (CHOOSE p \in Range(s) : ~IsFinite(p))
          ELSE <<0, 0>>)
    ELSE LET l == CommonDenominator(s)
         IN Rat(Sum(AsTuple([i \in DOMAIN s |-> s[i][1] * (l \div s[i][2])])), l)

\* arr[mask]: numpy indexing by a boolean array
BoolIndex(arr, mask) ==
    LET RECURSIVE Take(_)
        Take(i) == IF i > Len(arr) THEN <<>>
                   ELSE (IF mask[i] THEN <<arr[i]>> ELSE <<>>) \o Take(i + 1)
    IN Take(1)

\* log10 in thousandths, for 1..10
Log10(n) == <<0, 301, 477, 602, 699, 778, 845, 903, 954, 1000>>[n]

(***************************************************************************)
(* count_pts_within_radius                                                 *)
(***************************************************************************)
\* the set built by unique_points.add((xval, yval)) over the rows
UniquePoints(xs, ys) == {<<xs[i], ys[i]>> : i \in DOMAIN xs}

\* the orders in which "for a, b in unique_points" may visit a set
IterationOrders(S) ==
    {f \in [1..Cardinality(S) -> S] :
        \A i, j \in 1..Cardinality(S) : i # j => f[i] # f[j]}

WithinRadiusStrict(xv, yv, a, b, r, ls) ==
    IF ls = 1
    THEN (Log10(xv) - Log10(a)) ^ 2 + (Log10(yv) - Log10(b)) ^ 2 < Log10(r) ^ 2
    ELSE (xv - a) ^ 2 + (yv - b) ^ 2 < r ^ 2

WithinRadiusUnsquared(xv, yv, a, b, r, ls) ==
    IF ls = 1
    THEN (Log10(xv) - Log10(a)) ^ 2 + (Log10(yv) - Log10(b)) ^ 2 <= Log10(r)
    ELSE (xv - a) ^ 2 + (yv - b) ^ 2 <= r

\* the neighbourhood predicate of one row (xv, yv) around (a, b)
WithinRadius(xv, yv, a, b, r, ls) ==
    IF ls = 1
    THEN (Log10(xv) - Log10(a)) ^ 2 + (Log10(yv) - Log10(b)) ^ 2 <= Log10(r) ^ 2
    ELSE (xv - a) ^ 2 + (yv - b) ^ 2 <= r ^ 2

\* len(x[mask]) for the mask of rows within the radius of (a, b)
NumNeighbors(xs, ys, a, b, r, ls) ==
    Len(BoolIndex(xs, AsTuple([i \in DOMAIN xs |->
                                    WithinRadius(xs[i], ys[i], a, b, r, ls)])))

\* count_data for one iteration order of unique_points
CountData(order, xs, ys, r, ls) ==
    AsTuple([k \in DOMAIN order |->
                <<order[k][1], order[k][2],
                  NumNeighbors(xs, ys, order[k][1], order[k][2], r, ls)>>])

CountPtsWithinRadius ==
    /\ pc = "start"
    /\ \E order \in IterationOrders(UniquePoints(x, y)) :
           count_data' = CountData(order, x, y, radius, logscale)
    /\ pc' = "count_pts_within_radius"
    /\ UNCHANGED <<x, y, radius, confidence_int, logscale, sorted_count_data,
                   total_count, cum_counts, confidence_points, hull_attempted,
                   hull_points, raised>>
    /\ UNCHANGED <<radVars, evarVars, rsqVars>>

(***************************************************************************)
(* confidence_hull                                                         *)
(***************************************************************************)
\* sorted(count_data, key=lambda point: point[2], reverse=True): descending
\* by count, points of equal count staying in count_data's order
SortedCountData(cd) ==
    LET RECURSIVE Insert(_, _)
        Insert(s, t) ==
            IF s = <<>> THEN <<t>>
            ELSE IF s[Len(s)][3] >= t[3] THEN Append(s, t)
            ELSE Append(Insert(SubSeq(s, 1, Len(s) - 1), t), s[Len(s)])
        RECURSIVE Go(_, _)
        Go(i, acc) == IF i > Len(cd) THEN acc ELSE Go(i + 1, Insert(acc, cd[i]))
    IN Go(1, <<>>)

\* sorted_count_data[:, 2]
Counts(scd) == AsTuple([i \in DOMAIN scd |-> scd[i][3]])

\* sorted_count_data[:, 0:2]
SortedPoints(scd) == AsTuple([i \in DOMAIN scd |-> <<scd[i][1], scd[i][2]>>])

\* np.cumsum(counts, axis=0)
CumSum(counts) ==
    LET RECURSIVE Go(_, _, _)
        Go(i, acc, out) ==
            IF i > Len(counts) THEN out
            ELSE Go(i + 1, acc + counts[i], Append(out, acc + counts[i]))
    IN Go(1, 0, <<>>)

TotalCountNumPoints(scd) == Len(scd)

\* sum(sorted_count_data[:, 2])
TotalCount(scd) == Sum(Counts(scd))

CumProportionMaskStrict(cum, total, conf) ==
    AsTuple([i \in DOMAIN cum |-> RatLt(Rat(cum[i], total), conf)])

\* cum_proportion_of_counts <= confidence_int
CumProportionMask(cum, total, conf) ==
    AsTuple([i \in DOMAIN cum |-> RatLeq(Rat(cum[i], total), conf)])

\* sorted_points[cum_proportion_of_counts <= confidence_int]
ConfidencePoints(scd, conf) ==
    BoolIndex(SortedPoints(scd),
              CumProportionMask(CumSum(Counts(scd)), TotalCount(scd), conf))

\* the selection confidence_hull makes when the set is visited in `order`
ConfidencePointsFor(order, xs, ys, r, conf, ls) ==
    ConfidencePoints(SortedCountData(CountData(order, xs, ys, r, ls)), conf)

\* convhull.convex_hull: membership of p in the convex hull of a point set
Cross(o, a, b) == (a[1] - o[1]) * (b[2] - o[2]) - (a[2] - o[2]) * (b[1] - o[1])

OnSegment(p, a, b) ==
    /\ Cross(a, b, p) = 0
    /\ (a[1] - p[1]) * (b[1] - p[1]) <= 0
    /\ (a[2] - p[2]) * (b[2] - p[2]) <= 0

InTriangle(p, a, b, c) ==
    /\ Cross(a, b, c) # 0
    /\ \/ Cross(a, b, p) >= 0 /\ Cross(b, c, p) >= 0 /\ Cross(c, a, p) >= 0
       \/ Cross(a, b, p) <= 0 /\ Cross(b, c, p) <= 0 /\ Cross(c, a, p) <= 0

InConvexHullOf(p, S) ==
    \/ p \in S
    \/ \E a, b \in S : OnSegment(p, a, b)
    \/ \E a, b, c \in S : InTriangle(p, a, b, c)

\* convhull.convex_hull: the vertices of the convex hull of a point set
ConvexHull(S) == {v \in S : ~InConvexHullOf(v, S \ {v})}

ConfidenceHull ==
    /\ pc = "start"
    /\ \E order \in IterationOrders(UniquePoints(x, y)) :
           LET cd == CountData(order, x, y, radius, logscale)
               scd == SortedCountData(cd)
               cp == ConfidencePoints(scd, confidence_int)
           IN /\ count_data' = cd
              /\ sorted_count_data' = scd
              /\ total_count' = TotalCount(scd)
              /\ cum_counts' = CumSum(Counts(scd))
              /\ confidence_points' = cp
              /\ hull_attempted' = TRUE
              /\ hull_points' = ConvexHull(Range(cp))
    /\ raised' = "none"
    /\ pc' = "confidence_hull"
    /\ UNCHANGED <<x, y, radius, confidence_int, logscale>>
    /\ UNCHANGED <<radVars, evarVars, rsqVars>>

InitPts ==
    /\ pc = "start"
    /\ \E n \in 1..MaxPts : x \in [1..n -> Coords] /\ y \in [1..n -> Coords]
    /\ logscale \in {0, 1}
    /\ radius \in IF logscale = 1 THEN 1..MaxRadius ELSE (-MaxRadius)..MaxRadius
    /\ confidence_int \in ConfLevels
    /\ count_data = <<>>
    /\ sorted_count_data = <<>>
    /\ total_count = 0
    /\ cum_counts = <<>>
    /\ confidence_points = <<>>
    /\ hull_attempted = FALSE
    /\ hull_points = {}
    /\ raised = "none"
    /\ Ns = <<>> /\ rank = <<>> /\ relab_sorted = <<>>
    /\ abundance_data = <<>> /\ evar_arg = <<0, 1>> /\ evar_result = "none"
    /\ obs = <<>> /\ pred = <<>> /\ rsquare = <<0, 1>>

NextPts == CountPtsWithinRadius \/ ConfidenceHull

SpecPts == InitPts /\ [][NextPts]_vars

(***************************************************************************)
(* get_rad_data and plot_rad                                               *)
(***************************************************************************)
\* -1 * Ns, elementwise
Negated(v) == AsTuple([i \in DOMAIN v |-> -1 * v[i]])

\* np.sort: a sorted copy, ascending
NpSort(v) ==
    LET RECURSIVE Insert(_, _)
        Insert(s, t) ==
            IF s = <<>> THEN <<t>>
            ELSE IF s[Len(s)] <= t THEN Append(s, t)
            ELSE Append(Insert(SubSeq(s, 1, Len(s) - 1), t), s[Len(s)])
        RECURSIVE Go(_, _)
        Go(i, acc) == IF i > Len(v) THEN acc ELSE Go(i + 1, Insert(acc, v[i]))
    IN Go(1, <<>>)

NsSortedUnsorted(v) == v

\* Ns_sorted = -1 * np.sort(-1 * Ns)
NsSorted(v) == Negated(NpSort(Negated(v)))

\* relab_sorted = Ns_sorted / sum(Ns_sorted)
RelabSorted(v) ==
    LET s == NsSorted(v)
    IN AsTuple([i \in DOMAIN s |-> Rat(s[i], Sum(s))])

\* rank = range(1, len(Ns) + 1)
RankRange(v) == AsTuple([i \in 1..Len(v) |-> i])

\* Ns.sort(reverse=True): the list itself, reordered in place
ListSortReverse(v) == Negated(NpSort(Negated(v)))

NsSortedInPlace(v) == ListSortReverse(v)

\* the caller's list after get_rad_data: np.array(Ns) copies it and rebinds
\* only the local name, and np.sort returns a copy
NsAfterGetRadData(v) == v

GetRadData ==
    /\ rank' = RankRange(Ns)
    /\ relab_sorted' = RelabSorted(Ns)
    /\ Ns' = NsAfterGetRadData(Ns)
    /\ pc' = "get_rad_data"
    /\ UNCHANGED <<ptsVars, evarVars, rsqVars>>

PlotRad ==
    /\ Ns' = ListSortReverse(Ns)
    /\ pc' = "plot_rad"
    /\ UNCHANGED <<rank, relab_sorted>>
    /\ UNCHANGED <<ptsVars, evarVars, rsqVars>>

InitRad ==
    /\ pc = "start"
    /\ \E n \in 0..MaxS : Ns \in [1..n -> 0..MaxAbund]
    /\ rank = <<>> /\ relab_sorted = <<>>
    /\ x = <<>> /\ y = <<>> /\ radius = 1 /\ confidence_int = <<1, 1>>
    /\ logscale = 0 /\ count_data = <<>> /\ sorted_count_data = <<>>
    /\ total_count = 0 /\ cum_counts = <<>> /\ confidence_points = <<>>
    /\ hull_attempted = FALSE /\ hull_points = {} /\ raised = "none"
    /\ abundance_data = <<>> /\ evar_arg = <<0, 1>> /\ evar_result = "none"
    /\ obs = <<>> /\ pred = <<>> /\ rsquare = <<0, 1>>

NextRad == GetRadData \/ PlotRad

SpecRad == InitRad /\ [][NextRad]_vars

(***************************************************************************)
(* e_var                                                                   *)
(***************************************************************************)
\* np.log in hundredths, for 1..10
Ln(n) == Rat(<<0, 69, 110, 139, 161, 179, 195, 208, 220, 230>>[n], 100)

RatSq(p) == RatMul(p, p)

LnNjOverSUndivided(a) == AsTuple([i \in DOMAIN a |-> Ln(a[i])])

\* ln_nj_over_S: np.log(abundance_data[i]) / S for each i
LnNjOverS(a) == AsTuple([i \in DOMAIN a |-> RatDiv(Ln(a[i]), <<Len(a), 1>>)])

\* ln_ni_minus_above: (np.log(abundance_data[i]) - sum(ln_nj_over_S)) ** 2
LnNiMinusAbove(a) ==
    AsTuple([i \in DOMAIN a |-> RatSq(RatSub(Ln(a[i]), RatSum(LnNjOverS(a))))])

\* sum(ln_ni_minus_above) / S, the argument of np.arctan
EvarArctanArg(a) == RatDiv(RatSum(LnNiMinusAbove(a)), <<Len(a), 1>>)

\* 1 - (2 / pi) * arctan(arg) for arg >= 0: arctan(0) = 0 gives exactly 1,
\* and arctan(arg) > 0 for arg > 0 gives a value below 1
EvarReturn(arg) == IF arg = <<0, 1>> THEN "1.0" ELSE "below 1.0"

EVar ==
    /\ pc = "start"
    /\ evar_arg' = EvarArctanArg(abundance_data)
    /\ evar_result' = EvarReturn(EvarArctanArg(abundance_data))
    /\ pc' = "e_var"
    /\ UNCHANGED abundance_data
    /\ UNCHANGED <<ptsVars, radVars, rsqVars>>

InitEvar ==
    /\ pc = "start"
    /\ \E n \in 1..MaxEvarS : abundance_data \in [1..n -> 1..MaxEvarAbund]
    /\ evar_arg = <<0, 1>> /\ evar_result = "none"
    /\ x = <<>> /\ y = <<>> /\ radius = 1 /\ confidence_int = <<1, 1>>
    /\ logscale = 0 /\ count_data = <<>> /\ sorted_count_data = <<>>
    /\ total_count = 0 /\ cum_counts = <<>> /\ confidence_points = <<>>
    /\ hull_attempted = FALSE /\ hull_points = {} /\ raised = "none"
    /\ Ns = <<>> /\ rank = <<>> /\ relab_sorted = <<>>
    /\ obs = <<>> /\ pred = <<>> /\ rsquare = <<0, 1>>

NextEvar == EVar

SpecEvar == InitEvar /\ [][NextEvar]_vars

(***************************************************************************)
(* obs_pred_rsquare                                                        *)
(***************************************************************************)
\* np.mean(obs)
Mean(v) == Rat(Sum(v), Len(v))

RsquareWithoutOneMinus(o, p) ==
    RatDiv(RatSum(AsTuple([i \in DOMAIN o |-> <<(o[i] - p[i]) ^ 2, 1>>])),
           RatSum(AsTuple([i \in DOMAIN o |-> RatSq(RatSub(<<o[i], 1>>, Mean(o)))])))

\* 1 - sum((obs - pred) ** 2) / sum((obs - np.mean(obs)) ** 2)
Rsquare(o, p) ==
    RatSub(<<1, 1>>,
           RatDiv(RatSum(AsTuple([i \in DOMAIN o |-> <<(o[i] - p[i]) ^ 2, 1>>])),
                  RatSum(AsTuple([i \in DOMAIN o |-> RatSq(RatSub(<<o[i], 1>>, Mean(o)))]))))

ObsPredRsquare ==
    /\ pc = "start"
    /\ rsquare' = Rsquare(obs, pred)
    /\ pc' = "obs_pred_rsquare"
    /\ UNCHANGED <<obs, pred>>
    /\ UNCHANGED <<ptsVars, radVars, evarVars>>

InitRsq ==
    /\ pc = "start"
    /\ \E n \in 1..MaxObs : obs \in [1..n -> 1..MaxVal] /\ pred \in [1..n -> 1..MaxVal]
    /\ rsquare = <<0, 1>>
    /\ x = <<>> /\ y = <<>> /\ radius = 1 /\ confidence_int = <<1, 1>>
    /\ logscale = 0 /\ count_data = <<>> /\ sorted_count_data = <<>>
    /\ total_count = 0 /\ cum_counts = <<>> /\ confidence_points = <<>>
    /\ hull_attempted = FALSE /\ hull_points = {} /\ raised = "none"
    /\ Ns = <<>> /\ rank = <<>> /\ relab_sorted = <<>>
    /\ abundance_data = <<>> /\ evar_arg = <<0, 1>> /\ evar_result = "none"

NextRsq == ObsPredRsquare

SpecRsq == InitRsq /\ [][NextRsq]_vars

(***************************************************************************)
(* Properties of count_pts_within_radius and confidence_hull (SpecPts).    *)
(***************************************************************************)
PointOf(t) == <<t[1], t[2]>>

\* number of input rows equal to the point p
Multiplicity(p) == Cardinality({i \in DOMAIN x : <<x[i], y[i]>> = p})

\* C1: in linear mode count_pts_within_radius returns exactly one triple per
\* distinct input pair, and each count is the number of input rows, with
\* multiplicity, at squared distance <= radius^2; x=[1,1,1], y=[2,2,2],
\* radius=1 gives exactly the one triple (1, 2, 3).
C1_OneTriplePerUniquePair ==
    (pc = "count_pts_within_radius" /\ logscale = 0) =>
        /\ \A i, j \in DOMAIN count_data :
               i # j => PointOf(count_data[i]) # PointOf(count_data[j])
        /\ {PointOf(count_data[k]) : k \in DOMAIN count_data}
               = {<<x[i], y[i]>> : i \in DOMAIN x}
        /\ \A k \in DOMAIN count_data :
               count_data[k][3] =
                   Cardinality({i \in DOMAIN x :
                       (x[i] - count_data[k][1]) * (x[i] - count_data[k][1])
                       + (y[i] - count_data[k][2]) * (y[i] - count_data[k][2])
                           <= radius * radius})
        /\ (x = <<1, 1, 1>> /\ y = <<2, 2, 2>> /\ radius = 1)
               => count_data = << <<1, 2, 3>> >>

C1_Witness ==
    /\ pc = "count_pts_within_radius" /\ logscale = 0
    /\ x = <<1, 1, 1>> /\ y = <<2, 2, 2>> /\ radius = 1
    /\ count_data = << <<1, 2, 3>> >>

\* C2: the points confidence_hull hands to the hull step are exactly the
\* longest prefix of the triples, sorted descending by count, whose running
\* sum of counts over the total of all counts is <= confidence_int; the
\* first point that overshoots and every point after it are excluded.
C2_LongestPrefixSelected ==
    pc = "confidence_hull" =>
        LET n == Len(sorted_count_data)
            Running[k \in 0..n] ==
                IF k = 0 THEN 0 ELSE Running[k - 1] + sorted_count_data[k][3]
            Total == Running[n]
            Fits(k) == \A i \in 1..k : Running[i] * confidence_int[2]
                                           <= confidence_int[1] * Total
            kmax == CHOOSE k \in 0..n :
                        Fits(k) /\ \A m \in 0..n : Fits(m) => m <= k
        IN /\ Len(count_data) = n
           /\ Range(sorted_count_data) = Range(count_data)
           /\ \A i, j \in 1..n :
                  i < j => sorted_count_data[i][3] >= sorted_count_data[j][3]
           /\ confidence_points =
                  [i \in 1..kmax |-> PointOf(sorted_count_data[i])]
           /\ kmax < n =>
                  Running[kmax + 1] * confidence_int[2] > confidence_int[1] * Total

C2_Witness ==
    /\ pc = "confidence_hull"
    /\ Len(confidence_points) >= 1
    /\ Len(confidence_points) + 2 <= Len(sorted_count_data)

\* C4: with confidence_int = 1.0 and every input point within the radius of
\* every other, the cumulative fraction reaches 1 only at the last point, no
\* point is excluded, the subset handed to the hull step is the full set of
\* distinct input points, and the returned hull covers every input point.
C4_FullConfidenceSelectsAll ==
    (/\ pc = "confidence_hull"
     /\ confidence_int = <<1, 1>>
     /\ \A k \in DOMAIN count_data : count_data[k][3] = Len(x)) =>
        /\ \A i \in DOMAIN cum_counts :
               (cum_counts[i] = total_count) <=> (i = Len(cum_counts))
        /\ Len(confidence_points) = Cardinality(UniquePoints(x, y))
        /\ Range(confidence_points) = UniquePoints(x, y)
        /\ \A i \in DOMAIN x : InConvexHullOf(<<x[i], y[i]>>, hull_points)

C4_Witness ==
    /\ pc = "confidence_hull"
    /\ confidence_int = <<1, 1>>
    /\ Len(count_data) >= 3
    /\ \A k \in DOMAIN count_data : count_data[k][3] = Len(x)
    /\ Len(confidence_points) = Len(count_data)
    /\ Cardinality(hull_points) = 3

\* C5: when the selected subset has fewer than 3 points, confidence_hull
\* fails with "insufficient points for hull" and does not attempt the
\* convex-hull computation.
C5_InsufficientPointsRejected ==
    (pc = "confidence_hull" /\ Len(confidence_points) < 3) =>
        /\ raised = "insufficient points for hull"
        /\ ~hull_attempted

\* C9: the set of points confidence_hull selects depends on the inputs
\* alone: whatever order the set of unique points is iterated in, the
\* selected subset is the same.
C9_SelectionIndependentOfSetOrder ==
    pc = "confidence_hull" =>
        \A o \in IterationOrders(UniquePoints(x, y)) :
            Range(ConfidencePointsFor(o, x, y, radius, confidence_int, logscale))
                = Range(confidence_points)

\* C10: in linear mode, for any radius, every returned triple (a, b, count)
\* has 1 <= multiplicity(a, b) <= count <= N; so the total confidence_hull
\* divides by is positive and the cumulative fractions strictly increase
\* and end at 1.
C10_CountBoundsAndFractions ==
    /\ (pc \in {"count_pts_within_radius", "confidence_hull"} /\ logscale = 0) =>
           \A k \in DOMAIN count_data :
               /\ 1 <= Multiplicity(PointOf(count_data[k]))
               /\ Multiplicity(PointOf(count_data[k])) <= count_data[k][3]
               /\ count_data[k][3] <= Len(x)
    /\ (pc = "confidence_hull" /\ logscale = 0) =>
           /\ total_count > 0
           /\ \A i \in 1..(Len(cum_counts) - 1) :
                  RatLt(Rat(cum_counts[i], total_count),
                        Rat(cum_counts[i + 1], total_count))
           /\ Rat(cum_counts[Len(cum_counts)], total_count) = <<1, 1>>

C10_Witness ==
    /\ pc = "confidence_hull" /\ logscale = 0 /\ radius < 0
    /\ Len(cum_counts) >= 2
    /\ \E k \in DOMAIN count_data :
           /\ Multiplicity(PointOf(count_data[k])) = 2
           /\ count_data[k][3] = 2
           /\ count_data[k][3] < Len(x)

(***************************************************************************)
(* Properties of get_rad_data (SpecRad).                                   *)
(***************************************************************************)
\* what get_rad_data is said to return for the caller's vector Ns
RadDataAsSpecified ==
    LET S == Len(Ns)
    IN /\ rank = [i \in 1..S |-> i]
       /\ Len(relab_sorted) = S
       /\ \A i, j \in 1..S : i < j => RatLeq(relab_sorted[j], relab_sorted[i])
       /\ RatSum(relab_sorted) = <<1, 1>>
       /\ \A v \in Range(Ns) :
              Cardinality({i \in 1..S : relab_sorted[i] = Rat(v, Sum(Ns))})
                  = Cardinality({i \in 1..S : Ns[i] = v})

\* C3 as stated: for all abundance vectors Ns of length S, get_rad_data
\* returns ranks 1..S ascending and S relative abundances that are
\* non-increasing, sum to 1, and are the descending sort of Ns divided by
\* the sum of Ns.
C3_RadDataForAllVectors == pc = "get_rad_data" => RadDataAsSpecified

\* C3 amended: the same, for abundance vectors whose sum is positive.
C3_RadDataForPositiveSum ==
    (pc = "get_rad_data" /\ Sum(Ns) > 0) => RadDataAsSpecified

C3_Witness ==
    /\ pc = "get_rad_data"
    /\ Ns = <<1, 3, 2>>
    /\ rank = <<1, 2, 3>>
    /\ relab_sorted = << <<1, 2>>, <<1, 3>>, <<1, 6>> >>

\* C7: a call of get_rad_data leaves the caller's abundance vector as it
\* was: the same elements in the same order, sorted or not.
C7_GetRadDataKeepsCallerVector ==
    [][pc' = "get_rad_data" => Ns' = Ns]_vars

C7_Witness ==
    /\ pc = "get_rad_data"
    /\ Ns = <<1, 3, 2>>
    /\ relab_sorted = << <<1, 2>>, <<1, 3>>, <<1, 6>> >>

RsquareByFormula ==
    LET S == Len(obs)
        T == Sum(obs)
        R == Sum([i \in DOMAIN obs |-> (obs[i] - pred[i]) * (obs[i] - pred[i])])
        D == Sum([i \in DOMAIN obs |-> (S * obs[i] - T) * (S * obs[i] - T)])
    IN Rat(D - S * S * R, D)

\* C6 as stated: obs_pred_rsquare computes
\* 1 - sum((obs-pred)^2) / sum((obs-mean(obs))^2), and for obs = [1,2,3],
\* pred = [2,2,2] its value is strictly between 0 and 1.
C6_RsquareStrictlyBetween ==
    pc = "obs_pred_rsquare" =>
        /\ rsquare = RsquareByFormula
        /\ (obs = <<1, 2, 3>> /\ pred = <<2, 2, 2>>) =>
               (RatLt(<<0, 1>>, rsquare) /\ RatLt(rsquare, <<1, 1>>))

\* C6 amended: obs_pred_rsquare computes the same formula, and for
\* obs = [1,2,3], pred = [2,2,2] its value is exactly 0 (less than 1, not
\* greater than 0).
C6_RsquareIsZero ==
    pc = "obs_pred_rsquare" =>
        /\ rsquare = RsquareByFormula
        /\ (obs = <<1, 2, 3>> /\ pred = <<2, 2, 2>>) => rsquare = <<0, 1>>

C6_Witness ==
    /\ pc = "obs_pred_rsquare"
    /\ obs = <<1, 2, 3>> /\ pred = <<2, 2, 2>>
    /\ rsquare = <<0, 1>>

====
